---- MODULE Spec2Model ----
(***************************************************************************)
(* locker: a linter for flake.lock files (src/src/main.rs).                *)
(*                                                                         *)
(* A string is a sequence of one-character strings.  A HashMap is a        *)
(* function; iterating a HashMap visits its entries in an arbitrary order. *)
(* Three specifications share the variables:                               *)
(*   Spec     a run of main, from argv and the file to process exit;       *)
(*   SpecDup  a call of find_duplicates on a name -> uri mapping;          *)
(*   SpecUri  serde's decoding of one `locked` object, then flake_uri.     *)
(***************************************************************************)
EXTENDS Integers, Sequences, FiniteSets, TLC

VARIABLES
    pc,          \* position of the run
    argv,        \* command line: "help", "bad" or "path"
    file,        \* the file at the path: [state, doc]
    flake_lock,  \* the decoded FlakeLock, [ok |-> FALSE] before decoding
    called,      \* the functions of main.rs entered so far
    inputs,      \* name -> uri mapping (result of parse_inputs)
    todo,        \* find_duplicates: entries the for loop has not yielded yet
    seen,        \* find_duplicates: Vec of uris seen
    firstName,   \* history: firstName[i] is the name that pushed seen[i]
    duplicates,  \* find_duplicates: uri -> Vec of names
    report,      \* what the run printed
    exitCode,    \* process exit status, -1 while running
    rawLocked,   \* SpecUri: a JSON `locked` object
    lock,        \* SpecUri: the decoded Locked value
    uri          \* SpecUri: flake_uri(lock)

vars == <<pc, argv, file, flake_lock, called, inputs, todo, seen, firstName,
          duplicates, report, exitCode, rawLocked, lock, uri>>

uriVars == <<rawLocked, lock, uri>>

-----------------------------------------------------------------------------
(* Bounds *)

MaxStrLen == 1   \* longest owner, repo, url or path
MaxNodes == 2    \* most nodes of a document in a run of main
MaxNames == 5    \* most entries of a mapping given to find_duplicates

-----------------------------------------------------------------------------
(* Strings *)

Chars == {"a", "A"}

Strs == UNION {[1..n -> Chars] : n \in 0..MaxStrLen}

LowerChar(c) == IF c = "A" THEN "a" ELSE c

\* str::to_lowercase
to_lowercase(s) == [i \in DOMAIN s |-> LowerChar(s[i])]

Range(f) == {f[x] : x \in DOMAIN f}

\* the lowercase serde tag of each variant of Locked, as a string
TagText(tag) ==
    CASE tag = "github"    -> <<"g", "i", "t", "h", "u", "b">>
      [] tag = "gitlab"    -> <<"g", "i", "t", "l", "a", "b">>
      [] tag = "sourcehut" -> <<"s", "o", "u", "r", "c", "e", "h", "u", "t">>
      [] tag = "git"       -> <<"g", "i", "t">>
      [] tag = "hg"        -> <<"h", "g">>
      [] tag = "tarball"   -> <<"t", "a", "r", "b", "a", "l", "l">>
      [] tag = "path"      -> <<"p", "a", "t", "h">>

-----------------------------------------------------------------------------
(* Locked and its canonical uri *)

ScmTags == {"github", "gitlab", "sourcehut"}
UrlTags == {"git", "hg", "tarball"}
PathTags == {"path"}
KnownTags == ScmTags \cup UrlTags \cup PathTags

\* enum Locked
Locked ==
    [tag : ScmTags, owner : Strs, repo : Strs]
        \cup [tag : UrlTags, url : Strs]
        \cup [tag : PathTags, path : Strs]

\* mutant: the repo is not lowercased
make_scm_uri_RepoVerbatim(node_type, owner, repo) ==
    TagText(node_type) \o <<":">> \o to_lowercase(owner) \o <<"/">> \o repo

make_scm_uri(node_type, owner, repo) ==
    TagText(node_type) \o <<":">> \o to_lowercase(owner) \o <<"/">> \o to_lowercase(repo)

\* mutant: the url is lowercased as owner and repo are
make_url_uri_Lowercased(node_type, url) ==
    TagText(node_type) \o <<":">> \o to_lowercase(url)

make_url_uri(node_type, url) ==
    TagText(node_type) \o <<":">> \o url

flake_uri(l) ==
    CASE l.tag \in ScmTags -> make_scm_uri(l.tag, l.owner, l.repo)
      [] l.tag \in UrlTags -> make_url_uri(l.tag, l.url)
      [] l.tag = "path"    -> TagText("path") \o <<":">> \o l.path

-----------------------------------------------------------------------------
(* serde: a JSON `locked` object and its decoding into Locked *)

FieldNames == {"owner", "repo", "url", "path"}

NoType == "<no type key>"

\* "indirect" is a tag Locked has no variant for; "GitHub" is a variant's
\* name, not its lowercase tag
RawTypes == KnownTags \cup {"indirect", "GitHub", NoType}

FieldMaps == UNION {[ks -> Strs] : ks \in SUBSET FieldNames}

RawLocked == [type : RawTypes, fields : FieldMaps]

RequiredFields(tag) ==
    CASE tag \in ScmTags -> {"owner", "repo"}
      [] tag \in UrlTags -> {"url"}
      [] tag = "path"    -> {"path"}

\* #[serde(tag = "type", rename_all = "lowercase")]: the object decodes iff
\* its type is a known tag and it has the fields of that variant; other keys
\* are ignored
Decodable(raw) ==
    /\ raw.type \in KnownTags
    /\ RequiredFields(raw.type) \subseteq DOMAIN raw.fields

DecodeLocked(raw) ==
    CASE raw.type \in ScmTags ->
            [tag |-> raw.type, owner |-> raw.fields["owner"], repo |-> raw.fields["repo"]]
      [] raw.type \in UrlTags ->
            [tag |-> raw.type, url |-> raw.fields["url"]]
      [] raw.type = "path" ->
            [tag |-> "path", path |-> raw.fields["path"]]

-----------------------------------------------------------------------------
(* serde: the JSON document and its decoding into FlakeLock *)

SupportedVersion == 7

AllNames == <<"input1", "input2", "input3", "input4", "input5", "input6", "input7">>

NodeNames == {AllNames[i] : i \in 1..MaxNodes}

TopKeys == {"nodes", "version", "root"}

\* version: usize, so a negative number does not decode
Versions == {-1, 6, SupportedVersion}

DocStrs == {<<"a">>, <<"A">>}

\* the `locked` objects of the documents of a run of main: any type with
\* either no field or all four fields
DocLocked ==
    [type : KnownTags \cup {"indirect"},
     fields : {[k \in {} |-> <<>>]} \cup {[k \in FieldNames |-> s] : s \in DocStrs}]

\* a JSON node: without `locked` (or with null), or with a `locked` object
DocNodes == {[hasLocked |-> FALSE]} \cup {[hasLocked |-> TRUE, locked |-> r] : r \in DocLocked}

Docs ==
    [keys : SUBSET TopKeys,
     version : Versions,
     nodes : UNION {[S -> DocNodes] : S \in SUBSET NodeNames}]

Files ==
    {[state |-> "unreadable"], [state |-> "malformed"]}
        \cup {[state |-> "json", doc |-> d] : d \in Docs}

\* struct Node { locked: Option<Locked> }
DecodeNode(node) ==
    IF node.hasLocked
    THEN [locked |-> [some |-> TRUE, val |-> DecodeLocked(node.locked)]]
    ELSE [locked |-> [some |-> FALSE]]

\* mutant: `version` is optional, as under #[serde(default)]
DocDecodable_DefaultVersion(doc) ==
    /\ {"nodes", "root"} \subseteq doc.keys
    /\ doc.version >= 0
    /\ \A n \in DOMAIN doc.nodes :
          doc.nodes[n].hasLocked => Decodable(doc.nodes[n].locked)

\* struct FlakeLock { nodes, version: usize, root: String }: every field is
\* required, and one undecodable node fails the whole document
DocDecodable(doc) ==
    /\ TopKeys \subseteq doc.keys
    /\ doc.version >= 0
    /\ \A n \in DOMAIN doc.nodes :
          doc.nodes[n].hasLocked => Decodable(doc.nodes[n].locked)

DecodeDoc(doc) ==
    [ok |-> TRUE,
     nodes |-> [n \in DOMAIN doc.nodes |-> DecodeNode(doc.nodes[n])],
     version |-> doc.version]

NotDecoded == [ok |-> FALSE]

-----------------------------------------------------------------------------
(* parse_inputs and find_duplicates *)

EmptyMap == [k \in {} |-> <<>>]

\* HashMap::insert / entry(k).insert_entry(v)
MapInsert(m, k, v) == [x \in DOMAIN m \cup {k} |-> IF x = k THEN v ELSE m[x]]

\* mutant: `break` for `continue`: a node without `locked` ends the loop
parse_inputs_BreakOnUnlocked(fl) ==
    IF \E n \in DOMAIN fl.nodes : ~fl.nodes[n].locked.some
    THEN EmptyMap
    ELSE [k \in DOMAIN fl.nodes |-> flake_uri(fl.nodes[k].locked.val)]

\* the nodes whose `locked` is Some are kept, each under its own name
parse_inputs(fl) ==
    [k \in {n \in DOMAIN fl.nodes : fl.nodes[n].locked.some}
        |-> flake_uri(fl.nodes[k].locked.val)]

\* mutant: `insert` for `or_default().push`: the group is replaced
VisitEntry_Overwrite(st, name, u) ==
    IF u \in Range(st.seen)
    THEN [st EXCEPT !.duplicates = MapInsert(@, u, <<name>>)]
    ELSE [st EXCEPT !.seen = Append(@, u), !.firstName = Append(@, name)]

\* mutant: the first name of a uri is recorded in its group too
VisitEntry_RecordFirst(st, name, u) ==
    [st EXCEPT !.duplicates =
                  MapInsert(@, u, Append(IF u \in DOMAIN @ THEN @[u] ELSE <<>>, name)),
               !.seen = IF u \in Range(@) THEN @ ELSE Append(@, u),
               !.firstName = IF u \in Range(st.seen) THEN @ ELSE Append(@, name)]

\* mutant: the uri is compared with the last uri seen only
VisitEntry_LastSeenOnly(st, name, u) ==
    IF st.seen # <<>> /\ st.seen[Len(st.seen)] = u
    THEN [st EXCEPT !.duplicates =
             MapInsert(@, u,
                 Append(IF u \in DOMAIN @ THEN @[u] ELSE <<>>, name))]
    ELSE [st EXCEPT !.seen = Append(@, u), !.firstName = Append(@, name)]

\* mutant: a repeated uri is pushed to seen again, its name recorded nowhere
VisitEntry_PushAlways(st, name, u) ==
    [st EXCEPT !.seen = Append(@, u), !.firstName = Append(@, name)]

\* the body of the for loop of find_duplicates, on the entry (name, u)
VisitEntry(st, name, u) ==
    IF u \in Range(st.seen)
    THEN [st EXCEPT !.duplicates =
             MapInsert(@, u,
                 Append(IF u \in DOMAIN @ THEN @[u] ELSE <<>>, name))]
    ELSE [st EXCEPT !.seen = Append(@, u), !.firstName = Append(@, name)]

RECURSIVE VisitAll(_, _, _)
VisitAll(st, m, order) ==
    IF order = <<>> THEN st
    ELSE VisitAll(VisitEntry(st, Head(order), m[Head(order)]), m, Tail(order))

\* find_duplicates(inputs) when the HashMap yields its entries in `order`
find_duplicates(m, order) ==
    VisitAll([seen |-> <<>>, firstName |-> <<>>, duplicates |-> EmptyMap], m, order).duplicates

\* the names of m in the order of AllNames: one of the orders a HashMap may
\* yield them in
NameOrder(m) == SelectSeq(AllNames, LAMBDA n : n \in DOMAIN m)

-----------------------------------------------------------------------------
(* A run of main *)

IdleUri ==
    /\ rawLocked = [type |-> NoType, fields |-> [k \in {} |-> <<>>]]
    /\ lock = [tag |-> "none"]
    /\ uri = <<>>

\* the state before main's first statement; -1 stands for "no exit status"
Init ==
    /\ pc = "args"
    /\ \/ argv \in {"help", "bad"} /\ file = [state |-> "unreadable"]
       \/ argv = "path" /\ file \in Files
    /\ flake_lock = NotDecoded
    /\ called = {}
    /\ inputs = EmptyMap
    /\ todo = {}
    /\ seen = <<>>
    /\ firstName = <<>>
    /\ duplicates = EmptyMap
    /\ report = "nothing"
    /\ exitCode = -1
    /\ IdleUri

Exit(code, what) ==
    /\ pc' = "exit"
    /\ exitCode' = code
    /\ report' = what

\* argh::from_env: the help flag prints the help and exits 0, a command line
\* that does not parse exits 1
ParseArgs ==
    /\ pc = "args"
    /\ IF argv = "help" THEN Exit(0, "help")
       ELSE IF argv = "bad" THEN Exit(1, "usage error")
       ELSE pc' = "read" /\ UNCHANGED <<exitCode, report>>
    /\ UNCHANGED <<argv, file, flake_lock, called, inputs, todo, seen, firstName,
                   duplicates, uriVars>>

\* fs::read_to_string(..)?: on Err main returns it, and the process exits 1
ReadFile ==
    /\ pc = "read"
    /\ IF file.state = "unreadable" THEN Exit(1, "error")
       ELSE pc' = "decode" /\ UNCHANGED <<exitCode, report>>
    /\ UNCHANGED <<argv, file, flake_lock, called, inputs, todo, seen, firstName,
                   duplicates, uriVars>>

\* serde_json::from_str(..)?
Decode ==
    /\ pc = "decode"
    /\ IF file.state = "json" /\ DocDecodable(file.doc)
       THEN /\ flake_lock' = DecodeDoc(file.doc)
            /\ pc' = "version"
            /\ UNCHANGED <<exitCode, report>>
       ELSE /\ Exit(1, "error")
            /\ UNCHANGED flake_lock
    /\ UNCHANGED <<argv, file, called, inputs, todo, seen, firstName,
                   duplicates, uriVars>>

\* mutant: the mismatch is printed and the run goes on
CheckVersion_Continue ==
    /\ pc = "version"
    /\ pc' = "parse"
    /\ report' = IF flake_lock.version # SupportedVersion
                 THEN "unsupported version" ELSE report
    /\ UNCHANGED <<argv, file, flake_lock, called, inputs, todo, seen, firstName,
                   duplicates, exitCode, uriVars>>

CheckVersion ==
    /\ pc = "version"
    /\ IF flake_lock.version # SupportedVersion
       THEN Exit(1, "unsupported version")
       ELSE pc' = "parse" /\ UNCHANGED <<exitCode, report>>
    /\ UNCHANGED <<argv, file, flake_lock, called, inputs, todo, seen, firstName,
                   duplicates, uriVars>>

\* let inputs = parse_inputs(flake_lock);
ParseInputs ==
    /\ pc = "parse"
    /\ called' = called \cup {"parse_inputs"}
    /\ inputs' = parse_inputs(flake_lock)
    /\ pc' = "call_find"
    /\ UNCHANGED <<argv, file, flake_lock, todo, seen, firstName, duplicates,
                   report, exitCode, uriVars>>

\* find_duplicates is entered: seen and duplicates are created empty and the
\* for loop takes the mapping
FindStart ==
    /\ pc = "call_find"
    /\ called' = called \cup {"find_duplicates"}
    /\ todo' = DOMAIN inputs
    /\ seen' = <<>>
    /\ firstName' = <<>>
    /\ duplicates' = EmptyMap
    /\ pc' = "loop"
    /\ UNCHANGED <<argv, file, flake_lock, inputs, report, exitCode, uriVars>>

\* one iteration of the for loop: the HashMap yields any entry not yet yielded
Visit ==
    /\ pc = "loop"
    /\ \E name \in todo :
          LET st == VisitEntry([seen |-> seen, firstName |-> firstName,
                                duplicates |-> duplicates], name, inputs[name])
          IN /\ seen' = st.seen
             /\ firstName' = st.firstName
             /\ duplicates' = st.duplicates
             /\ todo' = todo \ {name}
    /\ UNCHANGED <<pc, argv, file, flake_lock, called, inputs, report, exitCode,
                   uriVars>>

\* the loop is over and find_duplicates returns duplicates
FindReturn ==
    /\ pc = "loop"
    /\ todo = {}
    /\ pc' = "report"
    /\ UNCHANGED <<argv, file, flake_lock, called, inputs, todo, seen, firstName,
                   duplicates, report, exitCode, uriVars>>

\* mutant: the final exit(1) is missing and main returns Ok
Report_ExitZero ==
    /\ pc = "report"
    /\ IF DOMAIN duplicates = {}
       THEN Exit(0, "no duplicates")
       ELSE Exit(0, "duplicates")
    /\ UNCHANGED <<argv, file, flake_lock, called, inputs, todo, seen, firstName,
                   duplicates, uriVars>>

Report ==
    /\ pc = "report"
    /\ IF DOMAIN duplicates = {}
       THEN Exit(0, "no duplicates")
       ELSE Exit(1, "duplicates")
    /\ UNCHANGED <<argv, file, flake_lock, called, inputs, todo, seen, firstName,
                   duplicates, uriVars>>

Next ==
    \/ ParseArgs
    \/ ReadFile
    \/ Decode
    \/ CheckVersion
    \/ ParseInputs
    \/ FindStart
    \/ Visit
    \/ FindReturn
    \/ Report

Spec == Init /\ [][Next]_vars

\* main is one sequential thread: it takes its next step while it has one
FairSpec == Spec /\ WF_vars(Next)

-----------------------------------------------------------------------------
(* A call of find_duplicates, as the tests make it *)

DupNames == {AllNames[i] : i \in 1..MaxNames}

\* three canonical uris, called A, B and C below
UriA == flake_uri([tag |-> "github", owner |-> <<"a">>, repo |-> <<"a">>])
UriB == flake_uri([tag |-> "git", url |-> <<"a">>])
UriC == flake_uri([tag |-> "path", path |-> <<"a">>])

UriPool == {UriA, UriB, UriC}

InitDup ==
    /\ pc = "call_find"
    /\ argv = "path"
    /\ file = [state |-> "unreadable"]
    /\ flake_lock = NotDecoded
    /\ called = {}
    /\ inputs \in UNION {[S -> UriPool] : S \in SUBSET DupNames}
    /\ todo = {}
    /\ seen = <<>>
    /\ firstName = <<>>
    /\ duplicates = EmptyMap
    /\ report = "nothing"
    /\ exitCode = -1
    /\ IdleUri

NextDup ==
    \/ FindStart
    \/ Visit
    \/ FindReturn

SpecDup == InitDup /\ [][NextDup]_vars

-----------------------------------------------------------------------------
(* Decoding one `locked` object and canonicalizing it *)

InitUri ==
    /\ pc = "decode_locked"
    /\ argv = "path"
    /\ file = [state |-> "unreadable"]
    /\ flake_lock = NotDecoded
    /\ called = {}
    /\ inputs = EmptyMap
    /\ todo = {}
    /\ seen = <<>>
    /\ firstName = <<>>
    /\ duplicates = EmptyMap
    /\ report = "nothing"
    /\ exitCode = -1
    /\ rawLocked \in RawLocked
    /\ lock = [tag |-> "none"]
    /\ uri = <<>>

\* serde decodes the object into a Locked, or fails
DecodeLockedStep ==
    /\ pc = "decode_locked"
    /\ IF Decodable(rawLocked)
       THEN lock' = DecodeLocked(rawLocked) /\ pc' = "flake_uri"
       ELSE pc' = "decode_error" /\ UNCHANGED lock
    /\ UNCHANGED <<argv, file, flake_lock, called, inputs, todo, seen, firstName,
                   duplicates, report, exitCode, rawLocked, uri>>

FlakeUriStep ==
    /\ pc = "flake_uri"
    /\ uri' = flake_uri(lock)
    /\ pc' = "uri_done"
    /\ UNCHANGED <<argv, file, flake_lock, called, inputs, todo, seen, firstName,
                   duplicates, report, exitCode, rawLocked, lock>>

NextUri ==
    \/ DecodeLockedStep
    \/ FlakeUriStep

SpecUri == InitUri /\ [][NextUri]_vars

-----------------------------------------------------------------------------
(* Properties of a run of main *)

BadVersion == flake_lock.ok /\ flake_lock.version # SupportedVersion

\* C1: once a document has decoded with a version other than 7, the run ends
\* with exit code 1, and neither parse_inputs nor find_duplicates is ever
\* entered in that run.
C1_BadVersionExits ==
    /\ [](BadVersion => called = {} /\ pc \in {"version", "exit"}
                        /\ (pc = "exit" => exitCode = 1))
    /\ (BadVersion ~> (pc = "exit" /\ exitCode = 1 /\ called = {}))

C1_Witness ==
    /\ pc = "exit"
    /\ BadVersion
    /\ \E n \in DOMAIN flake_lock.nodes : flake_lock.nodes[n].locked.some

ReadFails == argv = "path" /\ file.state = "unreadable"

\* the document, when there is one: the file is read and is JSON
HasDoc == argv = "path" /\ file.state = "json"

\* a `locked` object that names no known kind, or lacks a field of its kind
BadLocked(r) ==
    \/ r.type \notin {"github", "gitlab", "sourcehut", "git", "hg", "tarball", "path"}
    \/ r.type \in {"github", "gitlab", "sourcehut"}
          /\ ("owner" \notin DOMAIN r.fields \/ "repo" \notin DOMAIN r.fields)
    \/ r.type \in {"git", "hg", "tarball"} /\ "url" \notin DOMAIN r.fields
    \/ r.type = "path" /\ "path" \notin DOMAIN r.fields

HasBadLocked(doc) ==
    \E n \in DOMAIN doc.nodes :
        doc.nodes[n].hasLocked /\ BadLocked(doc.nodes[n].locked)

\* C9's inputs: unreadable file, malformed document, no `nodes`, no
\* `version`, or a present `locked` object that is not one of the seven kinds
\* with its fields
C9_BadInput ==
    \/ ReadFails
    \/ argv = "path" /\ file.state = "malformed"
    \/ HasDoc /\ ("nodes" \notin file.doc.keys \/ "version" \notin file.doc.keys
                  \/ HasBadLocked(file.doc))

\* C5: a run that has ended has exit code 0 or 1: 1 if the version check
\* failed, if find_duplicates returned a non-empty result, or if reading or
\* decoding failed; 0 if the document decoded with version 7 and
\* find_duplicates returned an empty result, as it does when the locked nodes
\* have pairwise distinct uris.  A run that has not ended has a next step.
C5_ExitCodes ==
    /\ pc # "exit" => ENABLED Next
    /\ pc = "exit" =>
          /\ exitCode \in {0, 1}
          /\ BadVersion => exitCode = 1
          /\ ("find_duplicates" \in called /\ DOMAIN duplicates # {}) => exitCode = 1
          /\ (argv = "path" /\ ~flake_lock.ok) => exitCode = 1
          /\ C9_BadInput => exitCode = 1
          /\ (flake_lock.ok /\ flake_lock.version = 7 /\ DOMAIN duplicates = {})
                => exitCode = 0
          /\ (flake_lock.ok /\ flake_lock.version = 7
                /\ \A m, n \in DOMAIN inputs : inputs[m] = inputs[n] => m = n)
                => exitCode = 0

C5_Witness ==
    /\ pc = "exit"
    /\ exitCode = 0
    /\ Cardinality(DOMAIN inputs) >= 2

\* C8: once parse_inputs has run, the keys of its result are exactly the
\* names of the document's nodes that have a `locked` value, the value under
\* each name is flake_uri of that node's locked record, and every decoded
\* locked record is of one of the seven kinds flake_uri has an arm for.
C8_ParseInputsKeys ==
    "parse_inputs" \in called =>
        /\ DOMAIN inputs = {n \in DOMAIN file.doc.nodes : file.doc.nodes[n].hasLocked}
        /\ \A n \in DOMAIN inputs :
              /\ flake_lock.nodes[n].locked.val.tag
                    \in {"github", "gitlab", "sourcehut", "git", "hg", "tarball", "path"}
              /\ inputs[n] = flake_uri(flake_lock.nodes[n].locked.val)
              /\ flake_lock.nodes[n].locked.val.tag = file.doc.nodes[n].locked.type

C8_Witness ==
    /\ "parse_inputs" \in called
    /\ \E n \in DOMAIN file.doc.nodes : ~file.doc.nodes[n].hasLocked
    /\ \E n \in DOMAIN file.doc.nodes : file.doc.nodes[n].hasLocked

\* C9: on an unreadable file, a malformed document, a document without
\* `nodes` or `version`, or one with a bad `locked` object, the run fails at
\* the read or decode step with exit code 1: the version check,
\* parse_inputs, find_duplicates and the report are never reached, and no
\* FlakeLock (with the bad node left out or otherwise) is ever produced.
C9_DecodeFailureIsFatal ==
    C9_BadInput =>
        /\ pc \in {"args", "read", "decode", "exit"}
        /\ ~flake_lock.ok
        /\ called = {}
        /\ DOMAIN inputs = {}
        /\ report \in {"nothing", "error"}
        /\ pc = "exit" => (exitCode = 1 /\ report = "error")

\* a document that is fine but for one `locked` object, next to a good one
C9_Witness ==
    /\ pc = "exit"
    /\ HasDoc
    /\ TopKeys \subseteq file.doc.keys
    /\ file.doc.version = 7
    /\ HasBadLocked(file.doc)
    /\ \E n \in DOMAIN file.doc.nodes :
          file.doc.nodes[n].hasLocked /\ ~BadLocked(file.doc.nodes[n].locked)

-----------------------------------------------------------------------------
(* Properties of find_duplicates *)

\* find_duplicates has returned: `duplicates` is its result on `inputs`
Returned == pc = "report"

NamesOf(u) == {n \in DOMAIN inputs : inputs[n] = u}

\* the names recorded under u in the result d
Group(d, u) == IF u \in DOMAIN d THEN Range(d[u]) ELSE {}

\* C2: the keys of the result are exactly the uris that at least two names
\* map to, the group under a key has (number of names mapping to it) - 1
\* names, a uri of one name is no key, and no group is empty.
C2_KeysAndGroupSizes ==
    Returned =>
        /\ DOMAIN duplicates = {u \in Range(inputs) : Cardinality(NamesOf(u)) >= 2}
        /\ \A u \in DOMAIN duplicates :
              /\ Len(duplicates[u]) = Cardinality(NamesOf(u)) - 1
              /\ Len(duplicates[u]) >= 1
        /\ \A u \in Range(inputs) :
              Cardinality(NamesOf(u)) = 1 => u \notin DOMAIN duplicates

\* a uri of three or more names next to a uri of one name
C2_Witness ==
    /\ Returned
    /\ \E u \in Range(inputs) : Cardinality(NamesOf(u)) >= 3
    /\ \E u \in Range(inputs) : Cardinality(NamesOf(u)) = 1

\* input1 -> A, input2 -> B, input3 -> A, input4 -> C, input5 -> C
C3_Inputs ==
    [n \in {"input1", "input2", "input3", "input4", "input5"} |->
        CASE n \in {"input1", "input3"} -> UriA
          [] n = "input2" -> UriB
          [] n \in {"input4", "input5"} -> UriC]

\* the names whose visit pushed u to seen
FirstNames(u) == {firstName[i] : i \in {j \in DOMAIN seen : seen[j] = u}}

\* C3 as claimed: on C3_Inputs the result is A -> [input3], C -> [input5].
C3_Claimed ==
    (Returned /\ inputs = C3_Inputs) =>
        /\ DOMAIN duplicates = {UriA, UriC}
        /\ duplicates[UriA] = <<"input3">>
        /\ duplicates[UriC] = <<"input5">>

\* C3 as amended: on C3_Inputs the result has exactly the 2 keys A and C,
\* each with a group of one name: of input1 and input3 (of input4 and
\* input5) the one the loop visited second; the one visited first is not in
\* the group.
C3_Amended ==
    (Returned /\ inputs = C3_Inputs) =>
        /\ DOMAIN duplicates = {UriA, UriC}
        /\ Len(duplicates[UriA]) = 1
        /\ Len(duplicates[UriC]) = 1
        /\ \E f \in {"input1", "input3"} :
              FirstNames(UriA) = {f} /\ Range(duplicates[UriA]) = {"input1", "input3"} \ {f}
        /\ \E f \in {"input4", "input5"} :
              FirstNames(UriC) = {f} /\ Range(duplicates[UriC]) = {"input4", "input5"} \ {f}

\* the claimed result is one of the results of the call
C3_Witness ==
    /\ Returned
    /\ inputs = C3_Inputs
    /\ duplicates[UriA] = <<"input3">>
    /\ duplicates[UriC] = <<"input5">>

\* the result of find_duplicates on the same mapping under another iteration
\* order, the order of the names
Reference == find_duplicates(inputs, NameOrder(inputs))

\* C4 as claimed: under any two iteration orders the results have the same
\* keys and the same set of names under each key (stated for the order taken
\* and the order of the names).
C4_Claimed ==
    Returned =>
        /\ DOMAIN duplicates = DOMAIN Reference
        /\ \A u \in DOMAIN duplicates : Range(duplicates[u]) = Range(Reference[u])

\* C4 as amended: under any two iteration orders the results have the same
\* keys and the same number of names under each key; every order agrees with
\* the order of the names on both, so any two orders agree.
C4_Amended ==
    Returned =>
        /\ DOMAIN duplicates = DOMAIN Reference
        /\ \A u \in DOMAIN duplicates :
              /\ Len(duplicates[u]) = Len(Reference[u])
              /\ Cardinality(Range(duplicates[u])) = Cardinality(Range(Reference[u]))
              /\ Range(duplicates[u]) \cup Range(Reference[u]) \subseteq NamesOf(u)

\* two orders that disagree on the names of a group
C4_Witness ==
    /\ Returned
    /\ \E u \in DOMAIN duplicates : Range(duplicates[u]) # Range(Reference[u])

\* C10: in the result every name appears at most once over all groups and
\* only under its own uri, and of the names mapping to a uri exactly one is
\* absent from the result: the one the loop visited first.
C10_EachNameOnceFirstAbsent ==
    Returned =>
        /\ \A u \in DOMAIN duplicates : \A i \in DOMAIN duplicates[u] :
              /\ duplicates[u][i] \in DOMAIN inputs
              /\ inputs[duplicates[u][i]] = u
              /\ \A v \in DOMAIN duplicates : \A j \in DOMAIN duplicates[v] :
                    duplicates[v][j] = duplicates[u][i] => (v = u /\ j = i)
        /\ \A u \in Range(inputs) :
              LET absent == NamesOf(u) \ Group(duplicates, u)
              IN /\ Cardinality(absent) = 1
                 /\ absent = FirstNames(u)

\* a group of two names, whose first visited name is not the first name
C10_Witness ==
    /\ Returned
    /\ \E u \in DOMAIN duplicates :
          /\ Len(duplicates[u]) >= 2
          /\ "input1" \in Range(duplicates[u])

-----------------------------------------------------------------------------
(* Properties of flake_uri *)

\* s and t are equal up to the case of their letters
SameIgnoringCase(s, t) ==
    /\ Len(s) = Len(t)
    /\ \A i \in DOMAIN s : s[i] = t[i] \/ {s[i], t[i]} = {"a", "A"}

AllLowercase(s) == \A i \in DOMAIN s : s[i] # "A"

\* u is the text p, then the character c, then the text q
Joined(u, p, c, q) ==
    /\ Len(u) = Len(p) + 1 + Len(q)
    /\ SubSeq(u, 1, Len(p)) = p
    /\ u[Len(p) + 1] = c
    /\ SubSeq(u, Len(p) + 2, Len(u)) = q

\* C6: the uri of an SCM record is "<kind>:<owner>/<repo>" with owner and
\* repo in lowercase, so two records of the same kind whose owner and repo
\* differ only in letter case have the same uri.
C6_ScmLowercase ==
    (pc = "uri_done" /\ lock.tag \in {"github", "gitlab", "sourcehut"}) =>
        /\ lock.tag = rawLocked.type
        /\ \E o, r \in Strs :
              /\ SameIgnoringCase(o, lock.owner) /\ AllLowercase(o)
              /\ SameIgnoringCase(r, lock.repo) /\ AllLowercase(r)
              /\ \E rest \in {SubSeq(uri, i, Len(uri)) : i \in 1..(Len(uri) + 1)} :
                    /\ Joined(rest, o, "/", r)
                    /\ Joined(uri, TagText(rawLocked.type), ":", rest)
        /\ \A other \in Locked :
              (/\ other.tag = lock.tag
               /\ SameIgnoringCase(other.owner, lock.owner)
               /\ SameIgnoringCase(other.repo, lock.repo))
                  => flake_uri(other) = uri

C6_Witness ==
    /\ pc = "uri_done"
    /\ lock.tag = "github"
    /\ "A" \in Range(lock.owner)
    /\ "A" \in Range(lock.repo)

\* C7: the uri of a URL record is "<kind>:<url>" and that of a path record
\* "path:<path>", with the url or path verbatim, so two URL records of the
\* same kind have the same uri only if their urls are equal.
C7_UrlVerbatim ==
    /\ (pc = "uri_done" /\ lock.tag \in {"git", "hg", "tarball"}) =>
          /\ lock.tag = rawLocked.type
          /\ Joined(uri, TagText(rawLocked.type), ":", rawLocked.fields["url"])
          /\ \A other \in Locked :
                (other.tag = lock.tag /\ flake_uri(other) = uri) => other.url = lock.url
    /\ (pc = "uri_done" /\ lock.tag = "path") =>
          Joined(uri, <<"p", "a", "t", "h">>, ":", rawLocked.fields["path"])

C7_Witness ==
    /\ pc = "uri_done"
    /\ lock.tag = "git"
    /\ "A" \in Range(lock.url)

====
